---- MODULE Spec2Model ----
(***************************************************************************)
(* Model of the sealing core of go-ethereum-aura (pandora/vanguard):       *)
(*   - consensus/validatorset/multi.go : the validator-set multiplexer     *)
(*   - consensus/ethash/api.go         : the remote work API               *)
(*   - consensus/ethash (tests)        : the epoch store and the seal      *)
(*                                       verification as the tests use them*)
(* The remote sealer's loop (consensus/ethash/sealer.go), the epoch store  *)
(* and the seal verification themselves are not part of the sources at     *)
(* hand; their definitions below follow the written specification and the  *)
(* tests, and are marked as such.                                          *)
(***************************************************************************)
EXTENDS Integers, Sequences, FiniteSets, TLC

\* ------------------------------------------------------------------ bounds
MaxHeight == 2       \* activation heights are drawn from -1 .. MaxHeight
MaxBlock == 3        \* block numbers of multiplexer calls are 0 .. MaxBlock

MaxNumber == 2       \* candidate blocks are numbered 1 .. MaxNumber
MaxRate == 2         \* reported hash rates are 1 .. MaxRate
MaxClose == 2        \* the stop operation is invoked at most MaxClose times
SigLen == 3          \* bytes of a signature (96 in the program)
HashLen == 1         \* bytes of a hash (32 in the program)
MaxAge == 2          \* ticks after which a hash-rate sample has expired
MaxEpoch == 3        \* epochs are numbered 0 .. MaxEpoch
validatorListLen == 2  \* validators of an epoch (32 in the program)
SlotTimeDuration == 2  \* seconds of a slot (6 in the program)
Capacity == 2        \* epochs the store holds (12 in the program)
SlotTolerance == 0   \* seconds a header may lie outside its slot

Nil == "nil"

\* ----------------------------------------------- state of the multiplexer
VARIABLES
    sets,        \* Multi.sets : map[int]ValidatorSet
    mcall,       \* the last call made on the multiplexer, with its arguments
    mresolved,   \* what correctSet returned within that call
    minvoked,    \* the calls it made on validator-set implementations
    mret         \* its outcome: "panic", or the value returned

mvars == <<sets, mcall, mresolved, minvoked, mret>>

\* --------------------------------------------- state of the remote sealer
VARIABLES
    remote,        \* api.ethash.remote # nil
    currentBlock,  \* remote.currentBlock (NoBlock until the first Seal)
    currentWork,   \* remote.currentWork
    issued,        \* seal-hashes of every work package made so far
    requestExit,   \* the stop operation has been invoked
    closeCalls,    \* how many times it has been invoked
    exitCh,        \* remote.exitCh: "open" or "closed"
    rates,         \* the coordinator's hash-rate samples, by worker id
    pc,            \* where each caller stands in its API call
    call,          \* the call each caller is making, with its arguments
    workCh,        \* per call: workCh = make(chan [4]string, 1)
    errc,          \* per call: errc = make(chan error, 1)
    done,          \* per call: done = make(chan struct{}, 1)
    ret,           \* what the call returned
    seen,          \* the header GetShardingWork read from remote.currentBlock
    class,         \* how the coordinator classified the caller's submission
    afterStop,     \* the call was entered after exitCh was closed
    late           \* exitCh was closed when the call returned from a wait

rvars == <<remote, currentBlock, currentWork, issued, requestExit, closeCalls,
           exitCh, rates, pc, call, workCh, errc, done, ret, seen, class,
           afterStop, late>>

\* ------------------------------------------------ state of the epoch store
VARIABLES
    powMode,     \* ethash.config.PowMode: "pandora" or "normal"
    mci,         \* ethash.mci: the stored epochs, least recently used first
    ecall,       \* the last operation on the store, with its arguments
    eret         \* what it returned

evars == <<powMode, mci, ecall, eret>>

\* The worker ids hash rates are reported under.
RateIds == {1, 2}

\* A hash-rate sample: the rate reported and the ticks since it arrived.
NoSample == [rate |-> 0, age |-> 0]

\* ============================================================ multiplexer

\* The validator-set implementations a binding can point to; two bindings
\* may share one implementation.
Impls == {"setA", "setB"}

\* Activation heights: keys are Go ints, so a negative key is possible.
Heights == (0 - 1) .. MaxHeight

BlockNumbers == 0 .. MaxBlock

\* Opaque arguments handed through to the implementation (receipts, chain,
\* chainDb, state): only their identity matters.
Payloads == {"p1", "p2"}

\* All maps NewMulti can be handed.
SetMaps == UNION {[S -> Impls] : S \in SUBSET Heights}

NewMulti(setMap) == setMap

\* sort.Slice(setNumbers, func(i, j) bool { return setNumbers[i] > setNumbers[j] })
RECURSIVE SortDescending(_)
SortDescending(S) ==
    IF S = {} THEN <<>>
    ELSE LET m == CHOOSE x \in S : \A y \in S : x >= y
         IN  <<m>> \o SortDescending(S \ {m})

\* A scan that takes only strictly smaller activation heights.
RECURSIVE ScanStrict(_, _)
ScanStrict(setNumbers, blockNumber) ==
    IF setNumbers = <<>> THEN 0
    ELSE IF blockNumber > Head(setNumbers) THEN Head(setNumbers)
    ELSE ScanStrict(Tail(setNumbers), blockNumber)

\* setNum := 0; for _, setNumber := range setNumbers { if blockNumber >= setNumber
\* { setNum = setNumber; break } }
RECURSIVE ScanSetNumbers(_, _)
ScanSetNumbers(setNumbers, blockNumber) ==
    IF setNumbers = <<>> THEN 0
    ELSE IF blockNumber >= Head(setNumbers) THEN Head(setNumbers)
    ELSE ScanSetNumbers(Tail(setNumbers), blockNumber)

\* Multi.correctSet: panics on an empty map; otherwise returns
\* (multi.sets[setNum], setNum), where a missing key reads as the nil interface.
correctSet(m, blockNumber) ==
    IF DOMAIN m = {}
    THEN [panic |-> TRUE, set |-> Nil, num |-> 0]
    ELSE LET setNum == ScanSetNumbers(SortDescending(DOMAIN m), blockNumber)
         IN  [panic |-> FALSE,
              set   |-> IF setNum \in DOMAIN m THEN m[setNum] ELSE Nil,
              num   |-> setNum]

\* What an implementation returns for a call: opaque, determined by the call.
ImplResult(inv) == <<"result", inv>>

\* A forwarding that always tells the implementation the caller's hint.
SignalFirstFromHint(first, setBlockNumber, number) == first

\* first = big.NewInt(setBlockNumber).Cmp(header.Number) == 0
SignalFirst(first, setBlockNumber, number) == setBlockNumber = number

\* validator, _ := multi.correctSet(...); validator.Method(...)
ForwardTarget(m, r) == r.set

\* A lookup that stores the nil interface under a key the map does not hold.
SetsAfterLookupStoring(m, setNum) ==
    IF setNum \in DOMAIN m THEN m
    ELSE [k \in DOMAIN m \cup {setNum} |-> IF k \in DOMAIN m THEN m[k] ELSE Nil]

\* multi.sets after correctSet: the map is ranged over and read at setNum,
\* and a read stores nothing, whether or not the key is there.
SetsAfterLookup(m, setNum) == m

\* The common shape of the four forwarding methods: resolve, then call the
\* method on the resolved implementation. A call on the nil interface panics.
Forward(method, first, number, payload) ==
    LET r   == correctSet(sets, number)
        tgt == ForwardTarget(sets, r)
        inv == [impl |-> tgt, method |-> method,
                first |-> IF method = "SignalToChange"
                          THEN SignalFirst(first, r.num, number) ELSE FALSE,
                number |-> number, payload |-> payload]
    IN  /\ mcall' = [method |-> method, first |-> first, number |-> number,
                     payload |-> payload]
        /\ mresolved' = r
        /\ IF r.panic \/ tgt = Nil
           THEN /\ minvoked' = <<>>
                /\ mret' = "panic"
           ELSE /\ minvoked' = <<inv>>
                /\ mret' = ImplResult(inv)
        /\ sets' = IF r.panic THEN sets ELSE SetsAfterLookup(sets, r.num)
        /\ UNCHANGED <<rvars, evars>>

SignalToChange ==
    \E first \in BOOLEAN, number \in BlockNumbers, payload \in Payloads :
        Forward("SignalToChange", first, number, payload)

FinalizeChange ==
    \E number \in BlockNumbers, payload \in Payloads :
        Forward("FinalizeChange", FALSE, number, payload)

GetValidatorsByCaller ==
    \E number \in BlockNumbers :
        Forward("GetValidatorsByCaller", FALSE, number, "p1")

PrepareBackend ==
    \E number \in BlockNumbers, payload \in Payloads :
        Forward("PrepareBackend", FALSE, number, payload)

\* CountValidators: panic("implement me")
CountValidators ==
    /\ mcall' = [method |-> "CountValidators", first |-> FALSE, number |-> 0,
                 payload |-> "p1"]
    /\ mresolved' = [panic |-> FALSE, set |-> Nil, num |-> 0]
    /\ minvoked' = <<>>
    /\ mret' = "panic"
    /\ UNCHANGED <<sets, rvars, evars>>

NoCall == [method |-> "none", first |-> FALSE, number |-> 0, payload |-> "p1"]

InitMulti ==
    /\ sets \in {NewMulti(m) : m \in SetMaps}
    /\ mcall = NoCall
    /\ mresolved = [panic |-> FALSE, set |-> Nil, num |-> 0]
    /\ minvoked = <<>>
    /\ mret = Nil

NextMulti ==
    \/ SignalToChange
    \/ FinalizeChange
    \/ GetValidatorsByCaller
    \/ PrepareBackend
    \/ CountValidators

\* ======================================================== remote work API

Callers == {"c1", "c2"}

ParentHashes == {1, 2}
Blocks == [number : 1 .. MaxNumber, parentHash : ParentHashes]
NoBlock == [number |-> 0, parentHash |-> 0]

errEthashStopped == "ethash stopped"
errInvalidParentHash == "invalid parent hash"
errInvalidBlockNumber == "invalid block number"
errNotSupported == "not supported"
errNoMiningWork == "no mining work available yet"
errInvalidSealResult == "invalid or stale proof-of-work solution"
NoError == ""

\* [4]string{}
EmptyRes == <<0, 0, 0, 0>>

\* The seal-hash of a candidate: one value per header.
SealHash(b) == 10 * b.number + b.parentHash

\* The work package of a candidate: seal-hash, receipt hash, encoded header
\* and block number, all of the same header.
makeWork(b) == <<SealHash(b), 100 + SealHash(b), 200 + SealHash(b), b.number>>

\* ------------------------------------------------------------ bytes, hex
HexDigits == <<"0", "1", "2", "3", "4", "5", "6", "7",
               "8", "9", "a", "b", "c", "d", "e", "f">>

IsHexDigit(ch) == \E i \in 1 .. 16 : HexDigits[i] = ch
Nibble(ch) == (CHOOSE i \in 1 .. 16 : HexDigits[i] = ch) - 1

\* hexutil.Encode: "0x" and two digits per byte.
Encode(bytes) ==
    <<"0", "x">> \o
    [i \in 1 .. 2 * Len(bytes) |->
        IF i % 2 = 1 THEN HexDigits[(bytes[(i + 1) \div 2] \div 16) + 1]
        ELSE HexDigits[(bytes[i \div 2] % 16) + 1]]

\* hexutil.Decode: fails on the empty string, on a missing 0x prefix, on an
\* odd number of digits and on a character that is no hex digit.
Decode(input) ==
    IF Len(input) = 0 THEN [ok |-> FALSE, bytes |-> <<>>]
    ELSE IF ~(Len(input) >= 2 /\ input[1] = "0" /\ input[2] \in {"x", "X"})
    THEN [ok |-> FALSE, bytes |-> <<>>]
    ELSE LET body == SubSeq(input, 3, Len(input))
         IN  IF Len(body) % 2 = 1 \/ \E i \in 1 .. Len(body) : ~IsHexDigit(body[i])
             THEN [ok |-> FALSE, bytes |-> <<>>]
             ELSE [ok |-> TRUE,
                   bytes |-> [i \in 1 .. Len(body) \div 2 |->
                                16 * Nibble(body[2 * i - 1]) + Nibble(body[2 * i])]]

\* hexutil.MustDecode(hexSignatureString): Decode, and panic on its error.
MustDecode(input) == Decode(input)

\* blsSignatureBytes := new(BlsSignatureBytes); copy(blsSignatureBytes[:], b)
CopySignature(bytes) ==
    [i \in 1 .. SigLen |-> IF i <= Len(bytes) THEN bytes[i] ELSE 0]

\* common.BytesToHash: a longer input is cropped from the left, a shorter one
\* is padded with zeros on the left.
BytesToHash(bytes) ==
    [i \in 1 .. HashLen |->
        IF Len(bytes) >= HashLen THEN bytes[Len(bytes) - HashLen + i]
        ELSE IF i <= HashLen - Len(bytes) THEN 0
        ELSE bytes[i - (HashLen - Len(bytes))]]

ZeroHash == [i \in 1 .. HashLen |-> 0]
NoSeal == <<>>

\* The signature the expected signer makes over a seal-hash, and the digest
\* that solves it in proof-of-work mode: one value per seal-hash.
ExpectedBls(h) == [i \in 1 .. SigLen |-> (h + i) % 256]
ExpectedDigest(h) == [i \in 1 .. HashLen |-> (h + 100 + i) % 256]

\* The hashes a submission can reference: every candidate's, and one that
\* belongs to no candidate.
SubmitHashes == {SealHash(b) : b \in Blocks} \cup {0}

\* The payloads tried on the signature endpoint for a hash: the right
\* signature, one byte too many, too few bytes, and four malformed strings.
HexInputs(h) ==
    { Encode(ExpectedBls(h)),
      Encode(ExpectedBls(h) \o <<9>>),
      Encode(<<1>>),
      <<>>,
      <<"z", "z">>,
      <<"0", "x", "1">>,
      <<"0", "x", "z", "1">> }

\* ------------------------------------------------------- the API's calls
NoCallR == [kind |-> "none", parentHash |-> 0, blockNumber |-> 0, hash |-> 0,
            mixDigest |-> ZeroHash, blsSeal |-> NoSeal, rate |-> 0, id |-> 0]

NoRet == [status |-> "none", work |-> EmptyRes, err |-> NoError,
          accepted |-> FALSE, rate |-> 0]

Returned(work, err, accepted) ==
    [status |-> "returned", work |-> work, err |-> err,
     accepted |-> accepted, rate |-> 0]

Panicked == [status |-> "panic", work |-> EmptyRes, err |-> NoError,
             accepted |-> FALSE, rate |-> 0]

\* A first select whose shutdown case is never taken.
ExitCaseNever == FALSE

\* case <-api.ethash.remote.exitCh: ready once the channel is closed.
ExitCase == exitCh = "closed"

\* An entry that does not look whether a remote sealer is configured.
EnterUnchecked(c, theCall, whenNil) ==
    /\ pc[c] = "idle"
    /\ call' = [call EXCEPT ![c] = theCall]
    /\ afterStop' = [afterStop EXCEPT ![c] = (exitCh = "closed")]
    /\ workCh' = [workCh EXCEPT ![c] = <<>>]
    /\ errc' = [errc EXCEPT ![c] = <<>>]
    /\ done' = [done EXCEPT ![c] = <<>>]
    /\ seen' = [seen EXCEPT ![c] = NoBlock]
    /\ class' = [class EXCEPT ![c] = "none"]
    /\ late' = [late EXCEPT ![c] = FALSE]
    /\ pc' = [pc EXCEPT ![c] = "select"]
    /\ ret' = [ret EXCEPT ![c] = NoRet]
    /\ UNCHANGED <<remote, currentBlock, currentWork, issued, requestExit,
                   closeCalls, exitCh, rates, mvars, evars>>

\* The call is entered: `if api.ethash.remote == nil { return ... }`, else the
\* reply channels are made and the caller stands at its first select.
Enter(c, theCall, whenNil) ==
    /\ pc[c] = "idle"
    /\ call' = [call EXCEPT ![c] = theCall]
    /\ afterStop' = [afterStop EXCEPT ![c] = (exitCh = "closed")]
    /\ workCh' = [workCh EXCEPT ![c] = <<>>]
    /\ errc' = [errc EXCEPT ![c] = <<>>]
    /\ done' = [done EXCEPT ![c] = <<>>]
    /\ seen' = [seen EXCEPT ![c] = NoBlock]
    /\ class' = [class EXCEPT ![c] = "none"]
    /\ late' = [late EXCEPT ![c] = FALSE]
    /\ IF remote
       THEN /\ pc' = [pc EXCEPT ![c] = "select"]
            /\ ret' = [ret EXCEPT ![c] = NoRet]
       ELSE /\ pc' = [pc EXCEPT ![c] = "done"]
            /\ ret' = [ret EXCEPT ![c] = whenNil]
    /\ UNCHANGED <<remote, currentBlock, currentWork, issued, requestExit,
                   closeCalls, exitCh, rates, mvars, evars>>

\* The call returns from where it stands.
Return(c, value) ==
    /\ pc' = [pc EXCEPT ![c] = "done"]
    /\ ret' = [ret EXCEPT ![c] = value]
    /\ late' = [late EXCEPT ![c] = (exitCh = "closed")]
    /\ UNCHANGED <<remote, currentBlock, currentWork, issued, requestExit,
                   closeCalls, exitCh, rates, call, afterStop, class, mvars, evars>>

\* The shutdown case of the first select.
Stopped(c, kind, value) ==
    /\ pc[c] = "select"
    /\ call[c].kind = kind
    /\ ExitCase
    /\ Return(c, value)
    /\ UNCHANGED <<workCh, errc, done, seen>>

\* -- GetWork
GetWork_Call(c) ==
    Enter(c, [NoCallR EXCEPT !.kind = "GetWork"],
          Returned(EmptyRes, errNotSupported, FALSE))

GetWork_Stopped(c) ==
    Stopped(c, "GetWork", Returned(EmptyRes, errEthashStopped, FALSE))

\* A receive that hands back the sealer's work of the moment, field by
\* field, in place of the package the coordinator sent.
GetWork_RecvCurrent(c) ==
    /\ pc[c] = "recv"
    /\ call[c].kind = "GetWork"
    /\ \/ /\ workCh[c] # <<>>
          /\ Return(c, Returned(<<Head(workCh[c])[1], currentWork[2],
                                  currentWork[3], currentWork[4]>>, NoError, FALSE))
          /\ workCh' = [workCh EXCEPT ![c] = Tail(workCh[c])]
          /\ UNCHANGED errc
       \/ /\ errc[c] # <<>>
          /\ Return(c, Returned(EmptyRes, Head(errc[c]), FALSE))
          /\ errc' = [errc EXCEPT ![c] = Tail(errc[c])]
          /\ UNCHANGED workCh
    /\ UNCHANGED <<done, seen>>

\* select { case work := <-workCh: return work, nil
\*          case err := <-errc: return [4]string{}, err }
GetWork_Recv(c) ==
    /\ pc[c] = "recv"
    /\ call[c].kind = "GetWork"
    /\ \/ /\ workCh[c] # <<>>
          /\ Return(c, Returned(Head(workCh[c]), NoError, FALSE))
          /\ workCh' = [workCh EXCEPT ![c] = Tail(workCh[c])]
          /\ UNCHANGED errc
       \/ /\ errc[c] # <<>>
          /\ Return(c, Returned(EmptyRes, Head(errc[c]), FALSE))
          /\ errc' = [errc EXCEPT ![c] = Tail(errc[c])]
          /\ UNCHANGED workCh
    /\ UNCHANGED <<done, seen>>

\* -- GetShardingWork
GetShardingWork_Call(c) ==
    \E parentHash \in ParentHashes, blockNumber \in 0 .. MaxNumber :
        Enter(c, [NoCallR EXCEPT !.kind = "GetShardingWork",
                                 !.parentHash = parentHash,
                                 !.blockNumber = blockNumber],
              Returned(EmptyRes, errNotSupported, FALSE))

GetShardingWork_Stopped(c) ==
    Stopped(c, "GetShardingWork", Returned(EmptyRes, errEthashStopped, FALSE))

\* The second select: the work is taken from workCh and the lineage check is
\* still to come, or the coordinator's error is returned.
GetShardingWork_Recv(c) ==
    /\ pc[c] = "recv"
    /\ call[c].kind = "GetShardingWork"
    /\ \/ /\ workCh[c] # <<>>
          /\ pc' = [pc EXCEPT ![c] = "lineage"]
          /\ ret' = [ret EXCEPT ![c] = [NoRet EXCEPT !.work = Head(workCh[c])]]
          /\ workCh' = [workCh EXCEPT ![c] = Tail(workCh[c])]
          /\ UNCHANGED <<errc, remote, currentBlock, currentWork, issued,
                         requestExit, closeCalls, exitCh, rates, call,
                         afterStop, class, late, mvars, evars>>
       \/ /\ errc[c] # <<>>
          /\ Return(c, Returned(EmptyRes, Head(errc[c]), FALSE))
          /\ errc' = [errc EXCEPT ![c] = Tail(errc[c])]
          /\ UNCHANGED workCh
    /\ UNCHANGED <<done, seen>>

\* A lineage check that hands out the work along with its error.
LineageCheckLeakingWork(header, parentHash, blockNumber, work) ==
    IF blockNumber = 1 THEN Returned(work, NoError, FALSE)
    ELSE IF header.parentHash # parentHash
    THEN Returned(work, errInvalidParentHash, FALSE)
    ELSE IF header.number # blockNumber
    THEN Returned(work, errInvalidBlockNumber, FALSE)
    ELSE Returned(work, NoError, FALSE)

\* A lineage check that knows no exception for block number 1.
LineageCheckNoException(header, parentHash, blockNumber, work) ==
    IF header.parentHash # parentHash
    THEN Returned(EmptyRes, errInvalidParentHash, FALSE)
    ELSE IF header.number # blockNumber
    THEN Returned(EmptyRes, errInvalidBlockNumber, FALSE)
    ELSE Returned(work, NoError, FALSE)

\* A lineage check that compares the parent hash only.
LineageCheckParentOnly(header, parentHash, blockNumber, work) ==
    IF blockNumber = 1 THEN Returned(work, NoError, FALSE)
    ELSE IF header.parentHash # parentHash
    THEN Returned(EmptyRes, errInvalidParentHash, FALSE)
    ELSE Returned(work, NoError, FALSE)

\* if blockNumber == 1 { return work, nil }
\* if curBlockHeader.ParentHash != parentHash { return emptyRes, errInvalidParentHash }
\* if curBlockHeader.Number.Uint64() != blockNumber { return emptyRes, errInvalidBlockNumber }
\* return work, nil
LineageCheck(header, parentHash, blockNumber, work) ==
    IF blockNumber = 1 THEN Returned(work, NoError, FALSE)
    ELSE IF header.parentHash # parentHash
    THEN Returned(EmptyRes, errInvalidParentHash, FALSE)
    ELSE IF header.number # blockNumber
    THEN Returned(EmptyRes, errInvalidBlockNumber, FALSE)
    ELSE Returned(work, NoError, FALSE)

\* curBlockHeader := api.ethash.remote.currentBlock.Header(), read by the
\* caller after the work arrived, and the checks against it.
GetShardingWork_Lineage(c) ==
    /\ pc[c] = "lineage"
    /\ seen' = [seen EXCEPT ![c] = currentBlock]
    /\ Return(c, LineageCheck(currentBlock, call[c].parentHash,
                              call[c].blockNumber, ret[c].work))
    /\ UNCHANGED <<workCh, errc, done>>

\* -- SubmitWork, SubmitWorkBLS
\* A submission that is reported accepted whatever the coordinator answered.
SubmitResultAlways(err) == TRUE

\* return err == nil
SubmitResult(err) == err = NoError

SubmitWork_Call(c) ==
    \E hash \in SubmitHashes, good \in BOOLEAN :
        Enter(c, [NoCallR EXCEPT !.kind = "SubmitWork",
                                 !.hash = hash,
                                 !.mixDigest = IF good THEN ExpectedDigest(hash)
                                               ELSE ZeroHash],
              Returned(EmptyRes, NoError, FALSE))

\* The signature payload is decoded before anything is sent: a payload that
\* does not decode aborts the call.
SubmitWorkBLS_Call(c) ==
    \E hash \in SubmitHashes :
      \E hexSignatureString \in HexInputs(hash) :
        LET decoded == MustDecode(hexSignatureString)
            blsSignatureBytes == CopySignature(decoded.bytes)
        IN  IF remote /\ ~decoded.ok
            THEN /\ pc[c] = "idle"
                 /\ call' = [call EXCEPT ![c] =
                              [NoCallR EXCEPT !.kind = "SubmitWorkBLS", !.hash = hash]]
                 /\ afterStop' = [afterStop EXCEPT ![c] = (exitCh = "closed")]
                 /\ pc' = [pc EXCEPT ![c] = "done"]
                 /\ ret' = [ret EXCEPT ![c] = Panicked]
                 /\ seen' = [seen EXCEPT ![c] = NoBlock]
                 /\ class' = [class EXCEPT ![c] = "none"]
                 /\ late' = [late EXCEPT ![c] = FALSE]
                 /\ UNCHANGED <<remote, currentBlock, currentWork, issued,
                                requestExit, closeCalls, exitCh, rates,
                                workCh, errc, done, mvars, evars>>
            ELSE Enter(c, [NoCallR EXCEPT
                              !.kind = "SubmitWorkBLS",
                              !.hash = hash,
                              !.mixDigest = BytesToHash(SubSeq(blsSignatureBytes, 1, HashLen)),
                              !.blsSeal = blsSignatureBytes],
                       Returned(EmptyRes, NoError, FALSE))

SubmitWork_Stopped(c) ==
    \E kind \in {"SubmitWork", "SubmitWorkBLS"} :
        Stopped(c, kind, Returned(EmptyRes, NoError, FALSE))

\* err := <-errc; return err == nil
SubmitWork_Recv(c) ==
    /\ pc[c] = "recv"
    /\ call[c].kind \in {"SubmitWork", "SubmitWorkBLS"}
    /\ errc[c] # <<>>
    /\ Return(c, Returned(EmptyRes, NoError, SubmitResult(Head(errc[c]))))
    /\ errc' = [errc EXCEPT ![c] = Tail(errc[c])]
    /\ UNCHANGED <<workCh, done, seen>>

\* -- SubmitHashRate
SubmitHashRate_Call(c) ==
    \E rate \in 1 .. MaxRate, id \in RateIds :
        Enter(c, [NoCallR EXCEPT !.kind = "SubmitHashRate", !.rate = rate, !.id = id],
              Returned(EmptyRes, NoError, FALSE))

\* A shutdown case that reports the sample as taken.
SubmitHashRate_StoppedTrue(c) ==
    Stopped(c, "SubmitHashRate", Returned(EmptyRes, NoError, TRUE))

SubmitHashRate_Stopped(c) ==
    Stopped(c, "SubmitHashRate", Returned(EmptyRes, NoError, FALSE))

\* <-done; return true
SubmitHashRate_Recv(c) ==
    /\ pc[c] = "recv"
    /\ call[c].kind = "SubmitHashRate"
    /\ done[c] # <<>>
    /\ Return(c, Returned(EmptyRes, NoError, TRUE))
    /\ done' = [done EXCEPT ![c] = Tail(done[c])]
    /\ UNCHANGED <<workCh, errc, seen>>

\* -- GetHashrate
RECURSIVE SumRates(_, _)
SumRates(samples, ids) ==
    IF ids = {} THEN 0
    ELSE LET id == CHOOSE i \in ids : TRUE
         IN  samples[id].rate + SumRates(samples, ids \ {id})

\* api.ethash.Hashrate(): the sum of the samples that have not expired; the
\* local meter reads zero. It takes nothing from the coordinator's loop.
Hashrate == SumRates(rates, RateIds)

\* return uint64(api.ethash.Hashrate())
GetHashrate(c) ==
    /\ pc[c] = "idle"
    /\ call' = [call EXCEPT ![c] = [NoCallR EXCEPT !.kind = "GetHashrate"]]
    /\ pc' = [pc EXCEPT ![c] = "done"]
    /\ ret' = [ret EXCEPT ![c] =
                 [Returned(EmptyRes, NoError, FALSE) EXCEPT !.rate = Hashrate]]
    /\ afterStop' = [afterStop EXCEPT ![c] = (exitCh = "closed")]
    /\ UNCHANGED <<remote, currentBlock, currentWork, issued, requestExit,
                   closeCalls, exitCh, rates, workCh, errc, done, seen, class,
                   late, mvars, evars>>

\* The caller is free for its next call.
NextCall(c) ==
    /\ pc[c] = "done"
    /\ pc' = [pc EXCEPT ![c] = "idle"]
    /\ call' = [call EXCEPT ![c] = NoCallR]
    /\ ret' = [ret EXCEPT ![c] = NoRet]
    /\ seen' = [seen EXCEPT ![c] = NoBlock]
    /\ class' = [class EXCEPT ![c] = "none"]
    /\ afterStop' = [afterStop EXCEPT ![c] = FALSE]
    /\ late' = [late EXCEPT ![c] = FALSE]
    /\ UNCHANGED <<remote, currentBlock, currentWork, issued, requestExit,
                   closeCalls, exitCh, rates, workCh, errc, done, mvars, evars>>

\* ------------------------------------------------ the coordinator's loop
\* The loop takes one message at a time, straight from the caller that is
\* sending it (no message waits in a queue), handles it and replies before it
\* takes the next one; it runs until it sees the stop request.
LoopRunning == remote /\ exitCh = "open"

\* make(chan ..., 1): the capacity of every reply channel a call makes.
ReplyCap == 1

\* A reply channel without a buffer, whose receiver is not there yet.
CanSendUnbuffered(ch) == FALSE

\* A send on a buffered channel completes at once while the buffer has room.
CanSend(ch) == Len(ch) < ReplyCap

Sending(c, kinds) == pc[c] = "select" /\ call[c].kind \in kinds

\* Ethash.Seal hands the loop a new candidate: it becomes the current block
\* and its work package the current work.
SealOf(candidates) ==
    \E b \in candidates :
        /\ LoopRunning
        /\ currentBlock' = b
        /\ currentWork' = makeWork(b)
        /\ issued' = issued \cup {SealHash(b)}
        /\ UNCHANGED <<remote, requestExit, closeCalls, exitCh, rates, pc, call,
                       workCh, errc, done, ret, seen, class, afterStop, late, mvars, evars>>

Seal == SealOf(Blocks)

\* The same, in a run that knows one candidate only.
SealFirst == SealOf({[number |-> 1, parentHash |-> 1]})

\* case api.ethash.remote.fetchWorkCh <- &sealWork{errc: errc, res: workCh}
\* meets the loop: it answers with the current work, or with an error while
\* there is no candidate yet.
LoopFetchWork(c) ==
    /\ LoopRunning
    /\ Sending(c, {"GetWork", "GetShardingWork"})
    /\ CanSend(workCh[c]) /\ CanSend(errc[c])
    /\ IF currentBlock = NoBlock
       THEN /\ errc' = [errc EXCEPT ![c] = Append(@, errNoMiningWork)]
            /\ UNCHANGED workCh
       ELSE /\ workCh' = [workCh EXCEPT ![c] = Append(@, currentWork)]
            /\ UNCHANGED errc
    /\ pc' = [pc EXCEPT ![c] = "recv"]
    /\ UNCHANGED <<remote, currentBlock, currentWork, issued, requestExit,
                   closeCalls, exitCh, rates, call, done, ret, seen, class,
                   afterStop, late, mvars, evars>>

\* The seal check of a submission against the candidate it references.
VerifySeal(h, r) ==
    IF r.blsSeal # NoSeal THEN r.blsSeal = ExpectedBls(h)
    ELSE r.mixDigest = ExpectedDigest(h)

\* What becomes of a submission: unknown work, stale work, an invalid seal, a
\* sealed block nobody reads, or an accepted one.
Classify(r, read) ==
    IF r.hash \notin issued THEN "unknown"
    ELSE IF r.hash # currentWork[1] THEN "stale"
    ELSE IF ~VerifySeal(r.hash, r) THEN "invalid"
    ELSE IF ~read THEN "unread"
    ELSE "accepted"

\* case api.ethash.remote.submitWorkCh <- &mineResult{...} meets the loop: it
\* answers nil for an accepted submission and an error for any other.
LoopSubmitWork(c) ==
    \E read \in BOOLEAN :
        LET cls == Classify(call[c], read)
        IN  /\ LoopRunning
            /\ Sending(c, {"SubmitWork", "SubmitWorkBLS"})
            /\ CanSend(errc[c])
            /\ class' = [class EXCEPT ![c] = cls]
            /\ errc' = [errc EXCEPT ![c] =
                          Append(@, IF cls = "accepted" THEN NoError
                                    ELSE errInvalidSealResult)]
            /\ pc' = [pc EXCEPT ![c] = "recv"]
            /\ UNCHANGED <<remote, currentBlock, currentWork, issued, requestExit,
                           closeCalls, exitCh, rates, call, workCh, done, ret,
                           seen, afterStop, late, mvars, evars>>

\* case api.ethash.remote.submitRateCh <- &hashrate{...} meets the loop: it
\* records the sample under the worker's id and signals done.
LoopSubmitRate(c) ==
    /\ LoopRunning
    /\ Sending(c, {"SubmitHashRate"})
    /\ CanSend(done[c])
    /\ rates' = [rates EXCEPT ![call[c].id] = [rate |-> call[c].rate, age |-> 0]]
    /\ done' = [done EXCEPT ![c] = Append(@, "done")]
    /\ pc' = [pc EXCEPT ![c] = "recv"]
    /\ UNCHANGED <<remote, currentBlock, currentWork, issued, requestExit,
                   closeCalls, exitCh, call, workCh, errc, ret, seen, class,
                   afterStop, late, mvars, evars>>

\* Time passes by one tick: every sample grows older, and a sample that has
\* reached MaxAge ticks has expired and is dropped.
Tick ==
    /\ \E id \in RateIds : rates[id] # NoSample
    /\ rates' = [id \in RateIds |->
                   IF rates[id] = NoSample \/ rates[id].age + 1 >= MaxAge
                   THEN NoSample
                   ELSE [rates[id] EXCEPT !.age = @ + 1]]
    /\ UNCHANGED <<remote, currentBlock, currentWork, issued, requestExit,
                   closeCalls, exitCh, pc, call, workCh, errc, done, ret, seen,
                   class, afterStop, late, mvars, evars>>

\* The stop operation: the first invocation requests the exit, a repeated one
\* changes nothing.
Close ==
    /\ remote
    /\ closeCalls < MaxClose
    /\ closeCalls' = closeCalls + 1
    /\ requestExit' = TRUE
    /\ UNCHANGED <<remote, currentBlock, currentWork, issued, exitCh, rates, pc,
                   call, workCh, errc, done, ret, seen, class, afterStop, late, mvars, evars>>

\* The loop sees the request between two messages, returns and closes exitCh.
LoopExit ==
    /\ LoopRunning
    /\ requestExit
    /\ exitCh' = "closed"
    /\ UNCHANGED <<remote, currentBlock, currentWork, issued, requestExit,
                   closeCalls, rates, pc, call, workCh, errc, done, ret, seen,
                   class, afterStop, late, mvars, evars>>

InitRemote ==
    /\ remote \in BOOLEAN
    /\ currentBlock = NoBlock
    /\ currentWork = EmptyRes
    /\ issued = {}
    /\ requestExit = FALSE
    /\ closeCalls = 0
    /\ exitCh = "open"
    /\ rates = [id \in RateIds |-> NoSample]
    /\ pc = [c \in Callers |-> "idle"]
    /\ call = [c \in Callers |-> NoCallR]
    /\ workCh = [c \in Callers |-> <<>>]
    /\ errc = [c \in Callers |-> <<>>]
    /\ done = [c \in Callers |-> <<>>]
    /\ ret = [c \in Callers |-> NoRet]
    /\ seen = [c \in Callers |-> NoBlock]
    /\ class = [c \in Callers |-> "none"]
    /\ afterStop = [c \in Callers |-> FALSE]
    /\ late = [c \in Callers |-> FALSE]

CallerFetch(c) ==
    \/ GetWork_Call(c)
    \/ GetWork_Stopped(c)
    \/ GetWork_Recv(c)
    \/ GetShardingWork_Call(c)
    \/ GetShardingWork_Stopped(c)
    \/ GetShardingWork_Recv(c)
    \/ GetShardingWork_Lineage(c)

CallerSubmit(c) ==
    \/ SubmitWork_Call(c)
    \/ SubmitWorkBLS_Call(c)
    \/ SubmitWork_Stopped(c)
    \/ SubmitWork_Recv(c)

CallerRate(c) ==
    \/ SubmitHashRate_Call(c)
    \/ SubmitHashRate_Stopped(c)
    \/ SubmitHashRate_Recv(c)

\* The steps a caller takes by itself once its call is under way.
CallerProgress(c) ==
    \/ GetWork_Stopped(c)
    \/ GetWork_Recv(c)
    \/ GetShardingWork_Stopped(c)
    \/ GetShardingWork_Recv(c)
    \/ GetShardingWork_Lineage(c)
    \/ SubmitWork_Stopped(c)
    \/ SubmitWork_Recv(c)
    \/ SubmitHashRate_Stopped(c)
    \/ SubmitHashRate_Recv(c)

\* One caller fetching work while candidates change and the sealer is stopped.
NextFetch ==
    \/ CallerFetch("c1")
    \/ NextCall("c1")
    \/ Seal
    \/ LoopFetchWork("c1")
    \/ Close
    \/ LoopExit

\* One caller submitting seals while candidates change and the sealer is stopped.
NextSubmit ==
    \/ CallerSubmit("c1")
    \/ NextCall("c1")
    \/ Seal
    \/ LoopSubmitWork("c1")
    \/ Close
    \/ LoopExit

\* One caller making any call while the sealer, with one candidate, is stopped.
NextStop ==
    \/ CallerFetch("c1")
    \/ CallerSubmit("c1")
    \/ CallerRate("c1")
    \/ NextCall("c1")
    \/ SealFirst
    \/ LoopFetchWork("c1")
    \/ LoopSubmitWork("c1")
    \/ LoopSubmitRate("c1")
    \/ Close
    \/ LoopExit

\* One caller reporting hash rates and asking for the sum while samples
\* expire and the sealer is stopped.
NextRate ==
    \/ CallerRate("c1")
    \/ GetHashrate("c1")
    \/ NextCall("c1")
    \/ LoopSubmitRate("c1")
    \/ Tick
    \/ Close
    \/ LoopExit

\* ============================================================ epoch store

ModePandora == "pandora"
ModeNormal == "normal"

\* genesisStart: the deployment's genesis time, in seconds.
GenesisTime == 3

Epochs == 0 .. MaxEpoch

\* Public keys: those of two validator lists, a key on nobody's list, and the
\* key that stands in the genesis slot.
ListA == [i \in 1 .. validatorListLen |-> 10 + i]
ListB == [i \in 1 .. validatorListLen |-> 20 + i]
ValidatorLists == {ListA, ListB}
UnknownKey == 99
NoKey == 0

\* The width of an epoch: one slot per validator.
EpochWidth == validatorListLen * SlotTimeDuration

\* An epoch's start that advances by one slot, not by one epoch.
RECURSIVE EpochStartBySlot(_, _)
EpochStartBySlot(genesisTime, epoch) ==
    IF epoch = 0 THEN genesisTime
    ELSE EpochStartBySlot(genesisTime, epoch - 1) + SlotTimeDuration

\* Epoch 0 starts at the genesis time, every other epoch one epoch width
\* after the epoch before it.
RECURSIVE EpochStart(_, _)
EpochStart(genesisTime, epoch) ==
    IF epoch = 0 THEN genesisTime
    ELSE EpochStart(genesisTime, epoch - 1) + EpochWidth

\* NewMinimalConsensusInfo(epoch): a record of that epoch, nothing assigned.
NewMinimalConsensusInfo(epoch) ==
    [Epoch |-> epoch,
     ValidatorsList |-> [i \in 1 .. validatorListLen |-> NoKey],
     EpochTimeStartUnix |-> 0,
     SlotTimeDuration |-> SlotTimeDuration]

\* consensusInfo.AssignEpochStartFromGenesis(genesisTime)
AssignEpochStartFromGenesis(info, genesisTime) ==
    [info EXCEPT !.EpochTimeStartUnix = EpochStart(genesisTime, info.Epoch)]

\* consensusInfo.AssignValidators(validatorPublicList)
AssignValidators(info, list) == [info EXCEPT !.ValidatorsList = list]

\* A record whose start nobody assigned.
InfoForUnassigned(epoch, list) ==
    AssignValidators(NewMinimalConsensusInfo(epoch), list)

\* The records callers insert: of the epoch they are inserted for, started
\* from the deployment's genesis, with one of the validator lists.
InfoFor(epoch, list) ==
    AssignValidators(
        AssignEpochStartFromGenesis(NewMinimalConsensusInfo(epoch), GenesisTime),
        list)

NoInfo == [Epoch |-> 0,
           ValidatorsList |-> [i \in 1 .. validatorListLen |-> NoKey],
           EpochTimeStartUnix |-> 0,
           SlotTimeDuration |-> 0]

\* ------------------------------------------------------------- the cache
\* mci is a sequence of [key, info, given], the least recently used entry
\* first; given is the record as the caller handed it over, kept beside the
\* stored one for the properties.
Keys(cache) == {cache[i].key : i \in 1 .. Len(cache)}

Without(cache, key) == SelectSeq(cache, LAMBDA entry : entry.key # key)

\* A cache that evicts nothing.
CacheAddUnbounded(cache, key, info, given) ==
    Append(Without(cache, key), [key |-> key, info |-> info, given |-> given])

\* A cache that adds an entry beside the one its key has already.
CacheAddAppending(cache, key, info, given) ==
    LET added == Append(cache, [key |-> key, info |-> info, given |-> given])
    IN  IF Len(added) > Capacity THEN Tail(added) ELSE added

\* cache.Add(key, info): the entry becomes the most recently used one; a new
\* key in a full cache evicts the least recently used entry.
CacheAdd(cache, key, info, given) ==
    LET added == Append(Without(cache, key),
                        [key |-> key, info |-> info, given |-> given])
    IN  IF Len(added) > Capacity THEN Tail(added) ELSE added

\* A window whose end belongs to it.
CoversInclusive(info, time) ==
    /\ info.EpochTimeStartUnix <= time
    /\ time <= info.EpochTimeStartUnix + validatorListLen * info.SlotTimeDuration

\* The window of a stored epoch: [start, start + N * slotDuration).
Covers(info, time) ==
    /\ info.EpochTimeStartUnix <= time
    /\ time < info.EpochTimeStartUnix + validatorListLen * info.SlotTimeDuration

\* ------------------------------------------------------------ operations
errInvalidState == "invalid state"
errNotFound == "not found"

\* A header as far as sealing goes: number, time, the extra data and the
\* signature as they were before encoding, and the encoded extra data.
NoHeader == [Number |-> 0, Time |-> 0, Extra |-> <<>>]

\* The seal of no header.
NoSlotSeal == [slot |-> 0, epoch |-> 0, turn |-> 0, signature |-> <<>>]

NoCallE == [op |-> "none", epoch |-> 0, info |-> NoInfo, absent |-> FALSE,
            time |-> 0, header |-> NoHeader, pow |-> FALSE, seal |-> NoSlotSeal,
            again |-> FALSE]
NoRetE == [err |-> NoError, present |-> FALSE, info |-> NoInfo, evicted |-> {},
           looked |-> {}, bytes |-> <<>>, seal |-> NoSlotSeal]

\* A copy that gives up the first validator in every epoch.
StoredCopyEveryEpoch(epoch, info) == [info EXCEPT !.ValidatorsList[1] = NoKey]

\* What insert keeps of a record: a copy; in the copy of epoch 0 the first
\* validator gives way to the key of the genesis slot.
StoredCopy(epoch, info) ==
    IF epoch = 0 THEN [info EXCEPT !.ValidatorsList[1] = NoKey] ELSE info

\* A mode check that lets every mode pass.
InAnyMode(mode) == TRUE

\* The engine is in epoch/slot mode.
InPandoraMode(mode) == mode = ModePandora

\* The call before this one was a successful insert of the same record for
\* the same epoch.
InsertedBefore(epoch, info) ==
    /\ ecall.op = "insert"
    /\ eret.err = NoError
    /\ ecall.epoch = epoch
    /\ ecall.info = info

\* ethash.InsertMinimalConsensusInfo(epoch, consensusInfo), for the epochs of
\* a run.
InsertOf(epochs) ==
    \E epoch \in epochs, list \in ValidatorLists, absent \in BOOLEAN :
        LET info == IF absent THEN NoInfo ELSE InfoFor(epoch, list)
            added == CacheAdd(mci, epoch, StoredCopy(epoch, info), info)
        IN  /\ absent => ~InPandoraMode(powMode)
            /\ ecall' = [NoCallE EXCEPT !.op = "insert", !.epoch = epoch,
                                        !.info = info, !.absent = absent,
                                        !.again = InsertedBefore(epoch, info)]
            /\ IF ~InPandoraMode(powMode)
               THEN /\ eret' = [NoRetE EXCEPT !.err = errInvalidState]
                    /\ UNCHANGED mci
               ELSE /\ mci' = added
                    /\ eret' = [NoRetE EXCEPT !.evicted = Keys(mci) \ Keys(added)]
            /\ UNCHANGED <<powMode, mvars, rvars>>

InsertMinimalConsensusInfo == InsertOf(Epochs)

\* The same, in a run that knows the first two epochs only.
InsertFirstEpochs == InsertOf({0, 1})

\* The stored epoch whose window covers the time, if there is one.
Resolving(cache, time) ==
    {i \in 1 .. Len(cache) : Covers(cache[i].info, time)}

\* ethash.IsMinimalConsensusPresentForTime(timestamp)
HasCoverage(cache, time) == Resolving(cache, time) # {}

IsMinimalConsensusPresentForTime(time) ==
    /\ ecall' = [NoCallE EXCEPT !.op = "hasCoverage", !.time = time]
    /\ eret' = [NoRetE EXCEPT !.present = HasCoverage(mci, time)]
    /\ UNCHANGED <<powMode, mci, mvars, rvars>>

\* ethash.getMinimalConsensus(header): reads the store, changes nothing.
Resolve(cache, time) ==
    IF Resolving(cache, time) = {}
    THEN [NoRetE EXCEPT !.err = errNotFound]
    ELSE [NoRetE EXCEPT !.info =
            cache[CHOOSE i \in Resolving(cache, time) :
                    \A j \in Resolving(cache, time) : i >= j].info]

getMinimalConsensus(time) ==
    /\ ecall' = [NoCallE EXCEPT !.op = "resolve", !.time = time]
    /\ eret' = Resolve(mci, time)
    /\ UNCHANGED <<powMode, mci, mvars, rvars>>

\* ------------------------------------------------------ seal verification
errMalformedSeal == "malformed seal"
errTurnOutOfRange == "turn out of range"
errEpochNotFound == "epoch not found"
errInvalidSignature == "invalid signature"
errStaleOrFutureSlot == "stale or future slot"
errInvalidMixDigest == "invalid mix digest"

\* The keys headers are signed with: the validators of list A, the first of
\* list B, and a key on no list.
SignerKeys == {ListA[i] : i \in 1 .. validatorListLen} \cup {ListB[1], UnknownKey}

\* privKey.Sign(message) and signature.Verify(publicKey, message): a
\* signature names its key and its message, and verifies for these alone.
Sign(key, message) == <<key, message>>

\* A check of the message that takes any key.
VerifyAnyKey(signature, publicKey, message) == signature[2] = message

Verify(signature, publicKey, message) == signature = Sign(publicKey, message)

\* rlp.EncodeToBytes of the extra data: the number of fields, then the
\* fields (slot, epoch, turn, and the two parts of the signature if sealed).
EncodeExtra(slot, epoch, turn, signature) ==
    <<3 + Len(signature), slot, epoch, turn>> \o signature

\* rlp.DecodeBytes into the sealed extra data: fails unless the bytes are the
\* encoding of three fields and a signature.
DecodeExtra(bytes) ==
    IF Len(bytes) = 6 /\ bytes[1] = 5
    THEN [ok |-> TRUE, slot |-> bytes[2], epoch |-> bytes[3], turn |-> bytes[4],
          signature |-> <<bytes[5], bytes[6]>>]
    ELSE [ok |-> FALSE, slot |-> 0, epoch |-> 0, turn |-> 0, signature |-> <<0, 0>>]

\* A decoder that reads the three fields and nothing after them.
DecodeSealUnsigned(bytes) ==
    IF Len(bytes) >= 4
    THEN [ok |-> TRUE,
          seal |-> [slot |-> bytes[2], epoch |-> bytes[3], turn |-> bytes[4],
                    signature |-> <<>>]]
    ELSE [ok |-> FALSE, seal |-> NoSlotSeal]

\* SealCodec.decode: the three fields, and the signature block if the bytes
\* hold one; fails unless the count in front is that of the fields that
\* follow, three without a signature and five with one.
DecodeSeal(bytes) ==
    IF Len(bytes) >= 1 /\ bytes[1] \in {3, 3 + 2} /\ Len(bytes) = bytes[1] + 1
    THEN [ok |-> TRUE,
          seal |-> [slot |-> bytes[2], epoch |-> bytes[3], turn |-> bytes[4],
                    signature |-> SubSeq(bytes, 5, Len(bytes))]]
    ELSE [ok |-> FALSE, seal |-> NoSlotSeal]

\* SealCodec.encode of a seal.
EncodeSeal(seal) == EncodeExtra(seal.slot, seal.epoch, seal.turn, seal.signature)

\* ethash.SealHash(header): the hash of the header without its seal.
HeaderSealHash(number, time) == 1000 + 100 * number + time

\* A timing policy that lets every time pass.
InSlotWindowAlways(info, slot, time) == TRUE

\* The nominal window of a slot, one slot long from the epoch's start plus
\* slot * slotDuration, widened by the tolerance on both sides.
InSlotWindow(info, slot, time) ==
    LET slotStart == info.EpochTimeStartUnix + slot * info.SlotTimeDuration
    IN  /\ slotStart - SlotTolerance <= time
        /\ time < slotStart + info.SlotTimeDuration + SlotTolerance

\* Checks that resolve the epoch before they look at the turn.
VerifyPandoraSealEpochFirst(cache, header) ==
    LET seal == DecodeExtra(header.Extra)
        epoch == Resolve(cache, header.Time)
    IN  IF ~seal.ok THEN errMalformedSeal
        ELSE IF epoch.err # NoError THEN errEpochNotFound
        ELSE IF seal.turn >= validatorListLen THEN errTurnOutOfRange
        ELSE IF ~Verify(seal.signature, epoch.info.ValidatorsList[seal.turn + 1],
                        HeaderSealHash(header.Number, header.Time))
        THEN errInvalidSignature
        ELSE IF ~InSlotWindow(epoch.info, seal.slot, header.Time)
        THEN errStaleOrFutureSlot
        ELSE NoError

\* The checks of a header in epoch/slot mode, in their order.
VerifyPandoraSeal(cache, header) ==
    LET seal == DecodeExtra(header.Extra)
        epoch == Resolve(cache, header.Time)
    IN  IF ~seal.ok THEN errMalformedSeal
        ELSE IF seal.turn >= validatorListLen THEN errTurnOutOfRange
        ELSE IF epoch.err # NoError THEN errEpochNotFound
        ELSE IF ~Verify(seal.signature, epoch.info.ValidatorsList[seal.turn + 1],
                        HeaderSealHash(header.Number, header.Time))
        THEN errInvalidSignature
        ELSE IF ~InSlotWindow(epoch.info, seal.slot, header.Time)
        THEN errStaleOrFutureSlot
        ELSE NoError

\* The indices of the validator list the checks read: the turn, once the
\* extra data are decoded, the turn is in range and the epoch is resolved.
LookedUp(cache, header) ==
    LET seal == DecodeExtra(header.Extra)
    IN  IF seal.ok /\ seal.turn < validatorListLen
            /\ Resolve(cache, header.Time).err = NoError
        THEN {seal.turn}
        ELSE {}

\* A lookup that makes the resolved epoch the most recently used one.
StoreAfterVerifyTouched(cache, header) ==
    LET hits == Resolving(cache, header.Time)
    IN  IF hits = {} \/ ~DecodeExtra(header.Extra).ok THEN cache
        ELSE LET i == CHOOSE j \in hits : TRUE
             IN  Append(Without(cache, cache[i].key), cache[i])

\* The store after a verification: read, and left as it was.
StoreAfterVerify(cache, header) == cache

\* The header times tried on verification: from before the genesis to the end
\* of epoch 1.
VerifyTimes == (GenesisTime - 1) .. (GenesisTime + 2 * EpochWidth)

\* generatePandoraSealedHeaderByKey(privKey, headerNumber, headerTime,
\* extraData): the header, signed over its seal-hash; the defects tried are a
\* signature over something else and extra data without a signature.
SealedHeaders ==
    { [Number |-> slot,
       Time |-> time,
       Extra |-> IF defect = "unsealed" THEN EncodeExtra(slot, 0, turn, <<>>)
                 ELSE EncodeExtra(slot, 0, turn,
                        Sign(key, IF defect = "other" THEN 0
                                  ELSE HeaderSealHash(slot, time)))] :
      slot \in 0 .. validatorListLen - 1,
      turn \in 0 .. validatorListLen,
      time \in VerifyTimes,
      key \in SignerKeys,
      defect \in {"none", "other", "unsealed"} }

\* ethash.verifySeal(nil, header, false): in epoch/slot mode the checks
\* above; otherwise the proof-of-work check, whose outcome is the hash
\* function's. The store is read and left as it is. One header is verified
\* after the verdict on the one before has been taken.
verifySeal ==
    \E header \in SealedHeaders, pow \in BOOLEAN :
        /\ ecall.op # "verify"
        /\ InPandoraMode(powMode) => ~pow
        /\ ecall' = [NoCallE EXCEPT !.op = "verify", !.header = header,
                                    !.time = header.Time, !.pow = pow]
        /\ eret' = [NoRetE EXCEPT
                      !.err = IF InPandoraMode(powMode)
                              THEN VerifyPandoraSeal(mci, header)
                              ELSE IF pow THEN NoError ELSE errInvalidMixDigest,
                      !.looked = IF InPandoraMode(powMode)
                                 THEN LookedUp(mci, header) ELSE {}]
        /\ mci' = IF InPandoraMode(powMode) THEN StoreAfterVerify(mci, header)
                  ELSE mci
        /\ UNCHANGED <<powMode, mvars, rvars>>

\* The caller takes the verdict on a header.
TakeVerdict ==
    /\ ecall.op = "verify"
    /\ ecall' = NoCallE
    /\ eret' = NoRetE
    /\ UNCHANGED <<powMode, mci, mvars, rvars>>

\* Verification beside a store that is handed the first two epochs.
NextVerify ==
    \/ InsertFirstEpochs
    \/ verifySeal
    \/ TakeVerdict

\* ------------------------------------------------------------- seal codec
\* The seals handed to encode: every slot and turn of an epoch and one turn
\* past it, in the first epochs, unsigned or signed by one of the keys.
SealInputs ==
    { [slot |-> slot, epoch |-> epoch, turn |-> turn, signature |-> signature] :
      slot \in 0 .. validatorListLen - 1,
      epoch \in 0 .. 1,
      turn \in 0 .. validatorListLen,
      signature \in {<<>>} \cup {Sign(key, HeaderSealHash(0, GenesisTime)) :
                                    key \in SignerKeys} }

\* Byte strings near an encoding: cut short by one byte, followed by one
\* byte more, and with a count in front that is one too many.
Damaged(bytes) ==
    { SubSeq(bytes, 1, Len(bytes) - 1),
      Append(bytes, 0),
      [bytes EXCEPT ![1] = bytes[1] + 1] }

SealEncode ==
    \E seal \in SealInputs :
        /\ ecall' = [NoCallE EXCEPT !.op = "encode", !.seal = seal]
        /\ eret' = [NoRetE EXCEPT !.bytes = EncodeSeal(seal)]
        /\ UNCHANGED <<powMode, mci, mvars, rvars>>

\* decode of what encode has returned, or of bytes near it.
SealDecode ==
    /\ ecall.op = "encode"
    /\ \E bytes \in {eret.bytes} \cup Damaged(eret.bytes) :
        /\ ecall' = [ecall EXCEPT !.op = "decode", !.header.Extra = bytes]
        /\ eret' = [NoRetE EXCEPT
                      !.err = IF DecodeSeal(bytes).ok THEN NoError
                              ELSE errMalformedSeal,
                      !.seal = DecodeSeal(bytes).seal]
    /\ UNCHANGED <<powMode, mci, mvars, rvars>>

NextCodec ==
    \/ SealEncode
    \/ SealDecode

\* ------------------------------------------------- sealing of a header
\* The values herumi.CompressedSize may have: the constant is defined outside
\* the sources, and a prefix of a signature is a hash long or longer.
CompressedSizes == HashLen .. SigLen

\* The signer of the test server: signs the seal-hash, copies the signature
\* into the signature array and sets the header's MixDigest from the whole
\* array.
SignerSeal ==
    \E hash \in SubmitHashes :
        LET signature == ExpectedBls(hash)
            blsSignatureBytes == CopySignature(signature)
        IN  /\ ecall' = [NoCallE EXCEPT !.op = "seal",
                                        !.header.Number = hash,
                                        !.seal.signature = blsSignatureBytes]
            /\ eret' = [NoRetE EXCEPT !.bytes = BytesToHash(blsSignatureBytes)]
            /\ UNCHANGED <<powMode, mci, mvars, rvars>>

\* generatePandoraSealedHeaderByKey: signs the seal-hash and sets MixDigest
\* from the first CompressedSize bytes of the marshalled signature.
HeaderSeal ==
    \E hash \in SubmitHashes, compressedSize \in CompressedSizes :
        LET signature == ExpectedBls(hash)
            compressedSignature == SubSeq(signature, 1, compressedSize)
        IN  /\ ecall' = [NoCallE EXCEPT !.op = "seal",
                                        !.header.Number = hash,
                                        !.seal.signature = signature]
            /\ eret' = [NoRetE EXCEPT !.bytes = BytesToHash(compressedSignature)]
            /\ UNCHANGED <<powMode, mci, mvars, rvars>>

\* Every second from before the genesis to after the last epoch.
Times == (GenesisTime - 1) .. (GenesisTime + (MaxEpoch + 1) * EpochWidth)

\* The times the store is asked about: the second before the genesis, and
\* the first, second and last second of each epoch's window, up to the first
\* second after the last epoch.
QueryTimes ==
    {GenesisTime - 1}
        \cup UNION {{EpochStart(GenesisTime, e),
                     EpochStart(GenesisTime, e) + 1,
                     EpochStart(GenesisTime, e) + EpochWidth - 1} : e \in 0 .. MaxEpoch + 1}

\* lruEpochSet.cache.Add(0, genesisEpoch): a store that was handed the
\* genesis epoch before the engine was built around it.
PresetCache == CacheAdd(<<>>, 0, InfoFor(0, ListA), InfoFor(0, ListA))

InitEpoch ==
    /\ powMode \in {ModePandora, ModeNormal}
    /\ mci \in {<<>>, PresetCache}
    /\ ecall = NoCallE
    /\ eret = NoRetE

NextEpoch ==
    \/ InsertMinimalConsensusInfo
    \/ \E time \in QueryTimes : IsMinimalConsensusPresentForTime(time)
    \/ \E time \in QueryTimes : getMinimalConsensus(time)

\* ========================================================= specifications
vars == <<mvars, rvars, evars>>

\* The multiplexer on its own: no remote sealer is configured.
\* A store nobody has touched, in proof-of-work mode.
IdleEpoch ==
    /\ InitEpoch
    /\ powMode = ModeNormal
    /\ mci = <<>>

InitMultiOnly ==
    /\ InitMulti
    /\ InitRemote
    /\ remote = FALSE
    /\ IdleEpoch

SpecMulti == InitMultiOnly /\ [][NextMulti]_vars

\* The remote sealer, beside a multiplexer nobody calls.
InitSealer ==
    /\ InitRemote
    /\ InitMulti
    /\ sets = NewMulti([k \in {0} |-> "setA"])
    /\ IdleEpoch

\* The epoch store on its own.
InitStore ==
    /\ InitEpoch
    /\ InitRemote
    /\ remote = FALSE
    /\ InitMulti
    /\ sets = NewMulti([k \in {0} |-> "setA"])

SpecEpoch == InitStore /\ [][NextEpoch]_vars

SpecVerify == InitStore /\ [][NextVerify]_vars

SpecCodec == InitStore /\ [][NextCodec]_vars

\* Headers are sealed while one caller submits solutions.
NextSeal ==
    \/ SignerSeal
    \/ HeaderSeal
    \/ CallerSubmit("c1")
    \/ NextCall("c1")
    \/ SealFirst
    \/ LoopSubmitWork("c1")
    \/ Close
    \/ LoopExit

SpecSeal == InitSealer /\ [][NextSeal]_vars

SpecFetch == InitSealer /\ [][NextFetch]_vars

SpecSubmit == InitSealer /\ [][NextSubmit]_vars

SpecStop == InitSealer /\ [][NextStop]_vars

SpecRate == InitSealer /\ [][NextRate]_vars

\* A caller that can take a step is scheduled in the end, and so is the loop
\* once the stop is requested.
FairSpecStop ==
    /\ InitSealer
    /\ [][NextStop]_vars
    /\ WF_vars(CallerProgress("c1"))
    /\ WF_vars(LoopExit)

\* ------------------------------------------------- multiplexer: properties
ForwardMethods ==
    {"SignalToChange", "FinalizeChange", "GetValidatorsByCaller", "PrepareBackend"}

\* The spec's example: bindings at heights 0, 100 and 500.
ExampleSets == [k \in {0, 100, 500} |-> IF k = 100 THEN "setB" ELSE "setA"]

\* C1: with a height-0 binding registered and b >= 0, correctSet returns the
\* binding with the greatest activation height <= b, and that height
\* (bindings {0,100,500}: 0->0, 99->0, 100->100, 500->500, 10000->500).
C1_ResolveGreatest ==
    /\ (mcall.method \in ForwardMethods /\ 0 \in DOMAIN sets) =>
          /\ ~mresolved.panic
          /\ mresolved.num \in DOMAIN sets
          /\ mresolved.num <= mcall.number
          /\ \A k \in DOMAIN sets : k <= mcall.number => k <= mresolved.num
          /\ mresolved.set = sets[mresolved.num]
    /\ correctSet(ExampleSets, 0).num = 0
    /\ correctSet(ExampleSets, 99).num = 0
    /\ correctSet(ExampleSets, 100) = [panic |-> FALSE, set |-> "setB", num |-> 100]
    /\ correctSet(ExampleSets, 500).num = 500
    /\ correctSet(ExampleSets, 10000).num = 500

\* A call above the greatest of three activation heights.
C1_Witness ==
    /\ mcall.method \in ForwardMethods
    /\ 0 \in DOMAIN sets
    /\ mresolved.num > 0
    /\ mresolved.num < mcall.number
    /\ Cardinality(DOMAIN sets) >= 3

\* C2: with at least one binding, correctSet never fails and returns one of
\* the registered implementations, never the nil one.
C2_AlwaysRegistered ==
    (mcall.method \in ForwardMethods /\ DOMAIN sets # {}) =>
        /\ ~mresolved.panic
        /\ \E k \in DOMAIN sets : mresolved.set = sets[k]

\* C3: the flag SignalToChange forwards is (resolved activation height =
\* header number) whatever the caller's hint, hence true exactly at the
\* registered activation heights.
C3_FirstRecomputed ==
    (mcall.method = "SignalToChange" /\ minvoked # <<>>) =>
        /\ minvoked[1].first = (mresolved.num = mcall.number)
        /\ minvoked[1].first = (mcall.number \in DOMAIN sets)

\* The caller said "first" at a height that starts no set, and the
\* implementation was told otherwise.
C3_Witness ==
    /\ mcall.method = "SignalToChange"
    /\ mcall.first
    /\ minvoked # <<>>
    /\ ~minvoked[1].first
    /\ mresolved.num > 0

\* C4: FinalizeChange, GetValidatorsByCaller and PrepareBackend, on a
\* multiplexer with bindings, call exactly one implementation, the resolved
\* one, exactly once with the caller's arguments, and return its result.
C4_PureForwarding ==
    (mcall.method \in {"FinalizeChange", "GetValidatorsByCaller", "PrepareBackend"}
        /\ DOMAIN sets # {}) =>
        /\ Len(minvoked) = 1
        /\ minvoked[1].impl = mresolved.set
        /\ minvoked[1].method = mcall.method
        /\ minvoked[1].number = mcall.number
        /\ minvoked[1].payload = mcall.payload
        /\ mret = ImplResult(minvoked[1])

\* ----------------------------------------------- remote work API: properties
FetchKinds == {"GetWork", "GetShardingWork"}
SubmitKinds == {"SubmitWork", "SubmitWorkBLS"}

\* A GetShardingWork call that got work from the coordinator, read the
\* current candidate's header and returned.
Checked(c) ==
    /\ pc[c] = "done"
    /\ call[c].kind = "GetShardingWork"
    /\ seen[c] # NoBlock

\* What a stopped sealer makes a call return: the error for a fetch, "not
\* accepted" for a submission.
StoppedOutcome(c) ==
    IF call[c].kind \in FetchKinds
    THEN ret[c] = Returned(EmptyRes, errEthashStopped, FALSE)
    ELSE ret[c] = Returned(EmptyRes, NoError, FALSE)

\* C5: with a candidate present, GetShardingWork for block number 1 returns
\* the work whatever the parent hash; for another block number a parent hash
\* that differs from the candidate's fails with errInvalidParentHash (also when
\* the number differs too), and a matching parent hash with a differing
\* number fails with errInvalidBlockNumber.
C5_LineageCheck ==
    \A c \in Callers :
        Checked(c) =>
            /\ call[c].blockNumber = 1 =>
                  /\ ret[c].err = NoError
                  /\ ret[c].work # EmptyRes
                  /\ ret[c].work[1] \in issued
            /\ (call[c].blockNumber # 1 /\ seen[c].parentHash # call[c].parentHash) =>
                  ret[c] = Returned(EmptyRes, errInvalidParentHash, FALSE)
            /\ (call[c].blockNumber # 1 /\ seen[c].parentHash = call[c].parentHash
                  /\ seen[c].number # call[c].blockNumber) =>
                  ret[c] = Returned(EmptyRes, errInvalidBlockNumber, FALSE)

\* Parent hash and number both differ, and the parent hash is what is reported.
C5_Witness ==
    \E c \in Callers :
        /\ Checked(c)
        /\ call[c].blockNumber > 1
        /\ seen[c].parentHash # call[c].parentHash
        /\ seen[c].number # call[c].blockNumber
        /\ ret[c].err = errInvalidParentHash

\* C6 as written: whenever GetShardingWork returns a work package, the
\* candidate's number is the requested block number.
C6_NumberAlwaysChecked ==
    \A c \in Callers :
        (Checked(c) /\ ret[c].err = NoError /\ ret[c].work # EmptyRes) =>
            seen[c].number = call[c].blockNumber

\* C6, amended: a work package returned for a block number other than 1
\* belongs to a request whose number and parent hash are the candidate's; for
\* block number 1 neither the parent hash nor the number is checked, and the
\* work is returned.
C6_NumberCheckedExceptOne ==
    \A c \in Callers :
        Checked(c) =>
            /\ (call[c].blockNumber # 1 /\ ret[c].err = NoError) =>
                  /\ seen[c].number = call[c].blockNumber
                  /\ seen[c].parentHash = call[c].parentHash
                  /\ ret[c].work # EmptyRes
            /\ call[c].blockNumber = 1 =>
                  (ret[c].err = NoError /\ ret[c].work # EmptyRes)

\* Work returned for block number 1 while the candidate is block 2.
C6_Witness ==
    \E c \in Callers :
        /\ Checked(c)
        /\ call[c].blockNumber = 1
        /\ seen[c].number = 2
        /\ ret[c].err = NoError
        /\ ret[c].work # EmptyRes

\* C7: a call entered after the sealer has stopped returns the stopped
\* outcome, and a stopped sealer stays stopped.
C7_StoppedForGood ==
    \A c \in Callers :
        (pc[c] = "done" /\ afterStop[c]) =>
            (ret[c].status = "returned" /\ StoppedOutcome(c))

ReplyWaiting(c) ==
    IF call[c].kind \in FetchKinds THEN Len(workCh[c]) + Len(errc[c]) = 1
    ELSE IF call[c].kind \in SubmitKinds THEN Len(errc[c]) = 1
    ELSE Len(done[c]) = 1

C9_SubmitAccepted ==
    /\ [](\A c \in Callers :
            (pc[c] = "done" /\ call[c].kind \in SubmitKinds
                /\ ret[c].status = "returned") =>
                /\ ret[c].accepted = (class[c] = "accepted")
                /\ class[c] \in {"stale", "unknown", "invalid"} => ~ret[c].accepted)
    /\ [][\A c \in Callers :
            (pc[c] = "select" /\ pc'[c] = "recv" /\ call[c].kind \in SubmitKinds) =>
                /\ currentBlock' = currentBlock
                /\ currentWork' = currentWork
                /\ (class'[c] = "accepted") = (Head(errc'[c]) = NoError)
       ]_vars

\* A rightly sealed submission for a candidate that has been superseded.
C9_Witness ==
    \E c \in Callers :
        /\ pc[c] = "done"
        /\ call[c].kind = "SubmitWorkBLS"
        /\ class[c] = "stale"
        /\ call[c].blsSeal = ExpectedBls(call[c].hash)
        /\ ret[c] = Returned(EmptyRes, NoError, FALSE)

\* C10: whatever its input, a submission ends by returning true or false.
C10_AlwaysBoolean ==
    \A c \in Callers :
        (pc[c] = "done" /\ call[c].kind \in SubmitKinds) =>
            (ret[c].status = "returned" /\ ret[c].accepted \in BOOLEAN)

\* What a call returns when no remote sealer is configured.
DisabledOutcome(c) ==
    IF call[c].kind \in FetchKinds
    THEN ret[c] = Returned(EmptyRes, errNotSupported, FALSE)
    ELSE ret[c] = Returned(EmptyRes, NoError, FALSE)

\* C11: with no remote sealer configured, GetWork and GetShardingWork fail
\* with errNotSupported, SubmitWork, SubmitWorkBLS and SubmitHashRate return
\* false, and no call sends a message, waits at a select or at a receive, or
\* is given a reply.
C11_DisabledReturnsAtOnce ==
    \A c \in Callers :
        ~remote =>
            /\ pc[c] \in {"idle", "done"}
            /\ workCh[c] = <<>> /\ errc[c] = <<>> /\ done[c] = <<>>
            /\ class[c] = "none"
            /\ pc[c] = "done" => DisabledOutcome(c)

\* A signature submission made while no remote sealer is configured.
C11_Witness ==
    \E c \in Callers :
        /\ ~remote
        /\ pc[c] = "done"
        /\ call[c].kind = "SubmitWorkBLS"
        /\ ret[c] = Returned(EmptyRes, NoError, FALSE)

\* The work packages of the candidates: all four fields of one header.
WorkPackages == {makeWork(b) : b \in Blocks}

\* C12: GetWork returns the work package of the candidate that is current
\* when the coordinator takes the request: the coordinator replies with that
\* candidate's package, the caller returns the reply as it is, whatever
\* candidates replace it meanwhile, and so the four fields returned are
\* those of one candidate.
C12_WorkOfOneCandidate ==
    /\ [](\A c \in Callers :
            (pc[c] = "done" /\ call[c].kind = "GetWork" /\ ret[c].err = NoError) =>
                ret[c].work \in WorkPackages)
    /\ [][\A c \in Callers :
            /\ (pc[c] = "select" /\ pc'[c] = "recv" /\ call[c].kind = "GetWork"
                  /\ currentBlock # NoBlock) =>
                  workCh'[c] = <<makeWork(currentBlock)>>
            /\ (pc[c] = "recv" /\ pc'[c] = "done" /\ call[c].kind = "GetWork"
                  /\ workCh[c] # <<>>) =>
                  ret'[c] = Returned(Head(workCh[c]), NoError, FALSE)
       ]_vars

\* Work returned for a candidate that was replaced before the caller took
\* the reply.
C12_Witness ==
    \E c \in Callers :
        /\ pc[c] = "done"
        /\ call[c].kind = "GetWork"
        /\ ret[c].err = NoError
        /\ ret[c].work \in WorkPackages
        /\ ret[c].work # makeWork(currentBlock)

\* A hash-rate submission the coordinator has taken.
RateTaken(c) ==
    /\ call[c].kind = "SubmitHashRate"
    /\ \/ pc[c] = "recv"
       \/ pc[c] = "done" /\ ret[c].accepted

\* C13: SubmitHashRate returns true only after the coordinator has recorded
\* the sample: the sample is recorded when the coordinator takes the message,
\* it leaves the samples only by expiring, and until then the sum GetHashrate
\* returns includes it; when the shutdown case of the select is taken the
\* call returns false and no sample is recorded.
C13_RateAcknowledged ==
    /\ [](\A c \in Callers :
            (RateTaken(c) /\ rates[call[c].id] # NoSample) =>
                /\ rates[call[c].id].rate = call[c].rate
                /\ rates[call[c].id].age < MaxAge
                /\ Hashrate >= call[c].rate)
    /\ [][\A c \in Callers :
            /\ (call[c].kind = "SubmitHashRate" /\ pc[c] = "select" /\ pc'[c] = "recv") =>
                  rates'[call[c].id] = [rate |-> call[c].rate, age |-> 0]
            /\ (call[c].kind = "SubmitHashRate" /\ pc[c] = "select" /\ pc'[c] = "done") =>
                  (~ret'[c].accepted /\ rates' = rates /\ exitCh = "closed")
            /\ (call[c].kind = "SubmitHashRate" /\ pc'[c] = "done" /\ ret'[c].accepted) =>
                  pc[c] \in {"recv", "done"}
            /\ (RateTaken(c) /\ RateTaken(c)' /\ call'[c] = call[c]
                  /\ rates'[call[c].id] # rates[call[c].id]) =>
                  \/ rates'[call[c].id] = [rates[call[c].id] EXCEPT !.age = @ + 1]
                  \/ rates'[call[c].id] = NoSample /\ rates[call[c].id].age + 1 >= MaxAge
            /\ (pc[c] = "idle" /\ call'[c].kind = "GetHashrate") =>
                  ret'[c].rate = SumRates(rates, RateIds)
       ]_vars

\* A sample acknowledged after the sealer stopped, one tick old and still
\* part of the sum, beside another worker's sample.
C13_Witness ==
    \E c \in Callers :
        /\ pc[c] = "done"
        /\ call[c].kind = "SubmitHashRate"
        /\ ret[c].accepted
        /\ late[c]
        /\ rates[call[c].id] = [rate |-> call[c].rate, age |-> 1]
        /\ Hashrate > call[c].rate

\* ------------------------------------------------- epoch store: properties
\* The stored epochs whose window, start <= t < start + N * slotDuration,
\* holds the time.
StoredCovering(time) ==
    {i \in 1 .. Len(mci) :
        /\ mci[i].info.EpochTimeStartUnix <= time
        /\ time < mci[i].info.EpochTimeStartUnix
                    + validatorListLen * mci[i].info.SlotTimeDuration}

\* C14: IsMinimalConsensusPresentForTime(t) is true exactly when a stored
\* epoch has start <= t < start + N * slotDuration; a store that holds epoch
\* 0 only, started at G and W wide, covers G and G + W/2 and covers neither
\* G - 1 nor G + W nor G + 10 * W.
C14_CoverageWindow ==
    /\ ecall.op = "hasCoverage" => eret.present = (StoredCovering(ecall.time) # {})
    /\ (Keys(mci) = {0} /\ mci[1].info.EpochTimeStartUnix = GenesisTime) =>
          /\ HasCoverage(mci, GenesisTime)
          /\ HasCoverage(mci, GenesisTime + EpochWidth \div 2)
          /\ ~HasCoverage(mci, GenesisTime - 1)
          /\ ~HasCoverage(mci, GenesisTime + EpochWidth)
          /\ ~HasCoverage(mci, GenesisTime + 10 * EpochWidth)

\* The query for the first second after the window of epoch 0, on a store
\* that holds epoch 0 only.
C14_Witness ==
    /\ ecall.op = "hasCoverage"
    /\ Keys(mci) = {0}
    /\ ecall.time = GenesisTime + EpochWidth
    /\ ~eret.present

\* The stored epochs whose record, as it was inserted, covers the time.
GivenCovering(time) == {i \in 1 .. Len(mci) : Covers(mci[i].given, time)}

\* C15 as written: getMinimalConsensus for a time inside the window of a
\* stored epoch e returns a record equal to the one inserted for e, of epoch
\* e, and fails with NotFound when no stored window covers the time.
C15_ResolveReturnsInserted ==
    ecall.op = "resolve" =>
        /\ \A i \in GivenCovering(ecall.time) :
              /\ eret.err = NoError
              /\ eret.info = mci[i].given
              /\ eret.info.Epoch = mci[i].key
        /\ GivenCovering(ecall.time) = {} => eret.err = errNotFound

\* C15, amended: for an epoch other than 0 the record returned equals the
\* inserted one; for epoch 0 it has the inserted epoch index, start and slot
\* duration and the inserted validators but the first, which differs; NotFound
\* when no stored window covers the time.
C15_ResolveReturnsStored ==
    ecall.op = "resolve" =>
        /\ \A i \in GivenCovering(ecall.time) :
              /\ eret.err = NoError
              /\ eret.info.Epoch = mci[i].key
              /\ mci[i].key # 0 => eret.info = mci[i].given
              /\ mci[i].key = 0 =>
                    /\ [eret.info EXCEPT !.ValidatorsList[1] =
                            mci[i].given.ValidatorsList[1]] = mci[i].given
                    /\ mci[i].info # mci[i].given =>
                          eret.info.ValidatorsList[1] # mci[i].given.ValidatorsList[1]
        /\ GivenCovering(ecall.time) = {} => eret.err = errNotFound

\* A later epoch resolved a few seconds into its window, while an
\* older epoch has been evicted.
C15_Witness ==
    /\ ecall.op = "resolve"
    /\ eret.err = NoError
    /\ eret.info.Epoch >= 2
    /\ ecall.time > eret.info.EpochTimeStartUnix
    /\ eret.info = InfoFor(eret.info.Epoch, ListB)
    /\ 0 \notin Keys(mci)

\* C16: outside pandora mode InsertMinimalConsensusInfo fails with
\* InvalidState for every epoch and record, an absent record included, and
\* leaves the store as it was.
C16_InsertNeedsPandora ==
    /\ [](ecall.op = "insert" /\ powMode # ModePandora =>
            eret.err = errInvalidState)
    /\ [][powMode # ModePandora => mci' = mci]_vars

\* An absent record refused, the store still holding what it held.
C16_Witness ==
    /\ powMode = ModeNormal
    /\ ecall.op = "insert"
    /\ ecall.absent
    /\ eret.err = errInvalidState
    /\ mci = PresetCache

\* C17: the store never holds more than Capacity epochs; inserting a new
\* epoch into a full store evicts exactly the least recently used entry;
\* inserting below capacity, or an epoch that is stored already, evicts
\* nothing.
C17_BoundedLru ==
    /\ [](Len(mci) <= Capacity /\ Cardinality(Keys(mci)) = Len(mci))
    /\ [][(ecall'.op = "insert" /\ eret'.err = NoError /\ <<ecall, eret, mci>>' # <<ecall, eret, mci>>) =>
            /\ ecall'.epoch \in Keys(mci')
            /\ IF Len(mci) = Capacity /\ ecall'.epoch \notin Keys(mci)
               THEN /\ Keys(mci) \ Keys(mci') = {mci[1].key}
                    /\ eret'.evicted = {mci[1].key}
               ELSE /\ Keys(mci) \subseteq Keys(mci')
                    /\ eret'.evicted = {}
            /\ Keys(mci') \subseteq Keys(mci) \cup {ecall'.epoch}
         ]_vars
    /\ [][ecall'.op # "insert" => mci' = mci]_vars

\* An eviction that spares an older epoch index: the evicted entry was the
\* least recently used one, not the lowest.
C17_Witness ==
    /\ ecall.op = "insert"
    /\ eret.evicted # {}
    /\ \E k \in Keys(mci) : \A e \in eret.evicted : k < e
    /\ Len(mci) = Capacity

\* C18: the start of epoch i, from genesis time G, is G + i * N *
\* slotDuration, and so is the start of every record handed to the store.
C18_GenesisSchedule ==
    /\ \A i \in Epochs :
          /\ EpochStart(GenesisTime, i) = GenesisTime + i * validatorListLen * SlotTimeDuration
          /\ AssignEpochStartFromGenesis(NewMinimalConsensusInfo(i), GenesisTime).EpochTimeStartUnix
                = GenesisTime + i * validatorListLen * SlotTimeDuration
    /\ (ecall.op = "insert" /\ ~ecall.absent) =>
          ecall.info.EpochTimeStartUnix
              = GenesisTime + ecall.epoch * validatorListLen * SlotTimeDuration

\* The record of the last epoch handed to the store.
C18_Witness ==
    /\ ecall.op = "insert"
    /\ ecall.epoch = MaxEpoch
    /\ eret.err = NoError
    /\ ecall.info.EpochTimeStartUnix = GenesisTime + MaxEpoch * EpochWidth

VerifiedInEpoch ==
    /\ ecall.op = "verify"
    /\ InPandoraMode(powMode)
    /\ DecodeExtra(ecall.header.Extra).ok
    /\ DecodeExtra(ecall.header.Extra).turn < validatorListLen
    /\ Resolve(mci, ecall.header.Time).err = NoError

\* C20: a header for the slot its time lies in, signed over its seal-hash by
\* the key of validators[turn] of the resolved epoch, verifies; signed for
\* that turn by any other key, another validator's or an unknown one, it
\* fails with InvalidSignature.
C20_ExpectedSigner ==
    VerifiedInEpoch =>
        LET seal == DecodeExtra(ecall.header.Extra)
            info == Resolve(mci, ecall.header.Time).info
            expected == info.ValidatorsList[seal.turn + 1]
            sealHash == HeaderSealHash(ecall.header.Number, ecall.header.Time)
        IN  /\ (seal.signature = <<expected, sealHash>>
                  /\ info.EpochTimeStartUnix + seal.slot * info.SlotTimeDuration
                        <= ecall.header.Time
                  /\ ecall.header.Time < info.EpochTimeStartUnix
                        + (seal.slot + 1) * info.SlotTimeDuration) =>
                  eret.err = NoError
            /\ seal.signature[1] # expected => eret.err = errInvalidSignature

\* The second validator's header for the second slot of epoch 1, verified.
C20_Witness ==
    /\ VerifiedInEpoch
    /\ eret.err = NoError
    /\ DecodeExtra(ecall.header.Extra).turn = 1
    /\ DecodeExtra(ecall.header.Extra).signature[1] = ListA[2]
    /\ Resolve(mci, ecall.header.Time).info.Epoch = 1

\* C21: a header whose turn is validatorListLen or more is rejected with
\* TurnOutOfRange whatever its signature and whether or not its time
\* resolves to an epoch, and no validator is looked up for it.
C21_TurnOutOfRange ==
    (ecall.op = "verify" /\ InPandoraMode(powMode)
        /\ DecodeExtra(ecall.header.Extra).ok
        /\ DecodeExtra(ecall.header.Extra).turn >= validatorListLen) =>
        /\ eret.err = errTurnOutOfRange
        /\ eret.looked = {}

\* A header with a turn out of range, signed over its seal-hash by a
\* validator, for a time no stored epoch covers.
C21_Witness ==
    /\ ecall.op = "verify"
    /\ InPandoraMode(powMode)
    /\ DecodeExtra(ecall.header.Extra).turn = validatorListLen
    /\ DecodeExtra(ecall.header.Extra).signature
          = Sign(ListA[1], HeaderSealHash(ecall.header.Number, ecall.header.Time))
    /\ Resolve(mci, ecall.header.Time).err = errNotFound
    /\ mci # <<>>
    /\ eret.err = errTurnOutOfRange

\* The byte strings that are the encoding of some seal.
IsEncoding(bytes) == \E seal \in SealInputs : bytes = EncodeSeal(seal)

C23_OneCommitment ==
    (/\ ecall.op = "seal"
     /\ remote
     /\ call["c1"].kind = "SubmitWorkBLS"
     /\ call["c1"].blsSeal = ecall.seal.signature) =>
        call["c1"].mixDigest = eret.bytes

\* C24: a GetShardingWork call for a block number other than 1 that returns
\* work returns the work package of a candidate with the requested parent
\* hash and number, also when the candidate is replaced during the call.
C24_LineageAtomic ==
    \A c \in Callers :
        (Checked(c) /\ call[c].blockNumber # 1 /\ ret[c].err = NoError) =>
            ret[c].work = makeWork([number |-> call[c].blockNumber,
                                    parentHash |-> call[c].parentHash])

C26_SlotTiming ==
    (ecall.op = "verify" /\ InPandoraMode(powMode)
        /\ DecodeExtra(ecall.header.Extra).ok
        /\ Resolve(mci, ecall.header.Time).err = NoError) =>
        LET seal == DecodeExtra(ecall.header.Extra)
            info == Resolve(mci, ecall.header.Time).info
            start == info.EpochTimeStartUnix + seal.slot * info.SlotTimeDuration
            time == ecall.header.Time
            signed == /\ seal.turn < validatorListLen
                      /\ Verify(seal.signature, info.ValidatorsList[seal.turn + 1],
                                HeaderSealHash(ecall.header.Number, time))
        IN  /\ (time >= start /\ time < start + info.SlotTimeDuration) =>
                  /\ eret.err # errStaleOrFutureSlot
                  /\ signed => eret.err = NoError
            /\ (signed /\ (time < start - SlotTolerance
                           \/ time >= start + info.SlotTimeDuration + SlotTolerance)) =>
                  eret.err = errStaleOrFutureSlot

\* A header signed by the validator of its turn, for a time after the end of
\* its slot's window, was rejected for its timing.
C26_Witness ==
    /\ ecall.op = "verify"
    /\ InPandoraMode(powMode)
    /\ eret.err = errStaleOrFutureSlot
    /\ DecodeExtra(ecall.header.Extra).slot = 0
    /\ ecall.header.Time
          >= Resolve(mci, ecall.header.Time).info.EpochTimeStartUnix + SlotTimeDuration

\* C27: in epoch/slot mode an insert that repeats the insert before it
\* succeeds and leaves the store as the first left it: the same entries,
\* hence the same resolve results, in the same order of eviction.
C27_InsertIdempotent ==
    [][(ecall'.op = "insert" /\ ecall'.again) =>
          /\ eret'.err = NoError
          /\ eret'.evicted = {}
          /\ mci' = mci
      ]_vars

\* Epoch 0 has been inserted twice in a row into a full store.
C27_Witness ==
    /\ ecall.op = "insert"
    /\ ecall.again
    /\ ecall.epoch = 0
    /\ eret.err = NoError
    /\ Len(mci) = Capacity
    /\ mci[Len(mci)].key = 0

\* C28: no call on the multiplexer changes its bindings, so every height
\* resolves after the call to what it resolved to before it.
C28_BindingsFixed ==
    [][/\ sets' = sets
       /\ \A b \in BlockNumbers : correctSet(sets', b) = correctSet(sets, b)
      ]_vars

\* A call below the lowest activation height of a multiplexer without a
\* binding at height 0: the lookup read a key the map does not hold.
C28_Witness ==
    /\ mcall.method = "PrepareBackend"
    /\ ~mresolved.panic
    /\ mresolved.num \notin DOMAIN sets
    /\ DOMAIN sets # {}
    /\ mret = "panic"

\* C29: a GetWork or GetShardingWork call that returns an error, whichever,
\* returns the empty work package with it, also when the coordinator's work
\* had arrived before the lineage check failed.
C29_NoWorkWithError ==
    \A c \in Callers :
        (pc[c] = "done" /\ call[c].kind \in FetchKinds
            /\ ret[c].status = "returned" /\ ret[c].err # NoError) =>
            /\ ret[c].work = EmptyRes
            /\ ret[c].err \in {errNotSupported, errEthashStopped, errNoMiningWork,
                               errInvalidParentHash, errInvalidBlockNumber}

\* The coordinator's work had arrived and the number check failed.
C29_Witness ==
    \E c \in Callers :
        /\ Checked(c)
        /\ seen[c].parentHash = call[c].parentHash
        /\ ret[c].err = errInvalidBlockNumber
        /\ ret[c].work = EmptyRes
        /\ issued # {}

\* The replies waiting in a caller's reply channels.
Replies(c) == Len(workCh[c]) + Len(errc[c]) + Len(done[c])

\* C30: the reply channels of a request the coordinator can take have room,
\* so its reply is sent without waiting for the caller; taking a request adds
\* exactly one reply, and no channel ever holds more than its capacity.
C30_ReplyNeverBlocks ==
    /\ [](\A c \in Callers :
            /\ Replies(c) <= ReplyCap
            /\ pc[c] = "select" =>
                  /\ CanSend(workCh[c])
                  /\ CanSend(errc[c])
                  /\ CanSend(done[c]))
    /\ [][\A c \in Callers :
            (pc[c] = "select" /\ pc'[c] = "recv") =>
                /\ Replies(c) = 0
                /\ Replies(c)' = 1
         ]_vars

\* The coordinator has acknowledged a hash rate and stopped, and the caller
\* has not yet reached its receive.
C30_Witness ==
    \E c \in Callers :
        /\ pc[c] = "recv"
        /\ call[c].kind = "SubmitHashRate"
        /\ done[c] = <<"done">>
        /\ exitCh = "closed"

====
